---- MODULE Spec2Model ----
(***************************************************************************)
(* Sales dashboard (infisparks/hrms): the backend connector of             *)
(* lib/firebase.ts and the DashboardContent view: live subscription to the *)
(* "sell" path, month/year/day filters, aggregates, day options, logout.   *)
(*                                                                         *)
(* JavaScript strings are sequences of one-character strings, so that the  *)
(* conversions the code performs on them (month name -> month index,       *)
(* parseInt, ISO date parsing, number -> option text) are computed.        *)
(***************************************************************************)
EXTENDS Integers, Sequences, FiniteSets

\* ---------------------------------------------------------------- bounds

\* Number of distinct keys the store holds under "sell".
NumKeys == 2

\* Largest number of records one snapshot carries.
MaxSnapshot == 2

\* ------------------------------------------------------ program constants

\* Array.from({ length: 12 }, ...): the month options and the chart entries.
MonthCount == 12

\* Array.from({ length: 5 }, ...): the year options.
YearOptionCount == 5

\* ------------------------------------------------------------- JS values

\* The number NaN (no operand of the model is negative otherwise).
NaN == -1

\* a === b on numbers: NaN equals nothing, itself included.
StrictEq(a, b) == a # NaN /\ b # NaN /\ a = b

\* The option text 'All'.
All == <<"A", "l", "l">>

Digits == <<"0", "1", "2", "3", "4", "5", "6", "7", "8", "9">>

DigitValue(c) == (CHOOSE i \in 1..10 : Digits[i] = c) - 1

IsDigit(c) == \E i \in 1..10 : Digits[i] = c

\* String(n) of a non-negative integer, as an <option> renders it.
RECURSIVE NumberToString(_)
NumberToString(n) ==
  IF n < 10 THEN <<Digits[n + 1]>>
  ELSE NumberToString(n \div 10) \o <<Digits[(n % 10) + 1]>>

\* The digits s starts with, folded left to right from acc.
RECURSIVE ParseDigits(_, _)
ParseDigits(s, acc) ==
  IF s = <<>> \/ ~IsDigit(Head(s)) THEN acc
  ELSE ParseDigits(Tail(s), 10 * acc + DigitValue(Head(s)))

\* parseInt(s): the leading decimal digits of s, NaN when there is none.
ParseInt(s) ==
  IF s = <<>> \/ ~IsDigit(Head(s)) THEN NaN ELSE ParseDigits(s, 0)

\* ------------------------------------------------------------- calendar

\* Days from 1970-01-01 to day d of month m (1..12) of year y.
DaysFromCivil(y, m, d) ==
  LET yy  == IF m <= 2 THEN y - 1 ELSE y
      era == yy \div 400
      yoe == yy - era * 400
      mp  == IF m > 2 THEN m - 3 ELSE m + 9
      doy == (153 * mp + 2) \div 5 + d - 1
      doe == yoe * 365 + yoe \div 4 - yoe \div 100 + doy
  IN  era * 146097 + doe - 719468

\* The calendar date of day number z: [year, month (0..11), date].
CivilFromDays(z) ==
  LET zz  == z + 719468
      era == zz \div 146097
      doe == zz - era * 146097
      yoe == (doe - doe \div 1460 + doe \div 36524 - doe \div 146096) \div 365
      doy == doe - (365 * yoe + yoe \div 4 - yoe \div 100)
      mp  == (5 * doy + 2) \div 153
      d   == doy - (153 * mp + 2) \div 5 + 1
      m   == IF mp < 10 THEN mp + 3 ELSE mp - 9
      y   == yoe + era * 400 + (IF m <= 2 THEN 1 ELSE 0)
  IN  [year |-> y, month |-> m - 1, date |-> d]

InvalidDate == [year |-> NaN, month |-> NaN, date |-> NaN]

\* new Date(year, monthIndex, date): month and date overflow are carried
\* (date 0 is the last day of the month before); a NaN field gives Invalid Date.
DateOf(year, monthIndex, date) ==
  IF year = NaN \/ monthIndex = NaN \/ date = NaN THEN InvalidDate
  ELSE CivilFromDays(
         DaysFromCivil(year + monthIndex \div 12, (monthIndex % 12) + 1, 1)
           + date - 1)

\* new Date(soldAt) of an ISO "YYYY-MM-DD" string; the zone offset of the
\* environment is zero, so the local fields are the fields written.
NewDate(soldAt) ==
  IF Len(soldAt) = 10 /\ soldAt[5] = "-" /\ soldAt[8] = "-"
  THEN DateOf(ParseInt(SubSeq(soldAt, 1, 4)),
              IF ParseInt(SubSeq(soldAt, 6, 7)) = NaN THEN NaN
              ELSE ParseInt(SubSeq(soldAt, 6, 7)) - 1,
              ParseInt(SubSeq(soldAt, 9, 10)))
  ELSE InvalidDate

\* ----------------------------------------------------------- month names

Locales == {"en-US", "es-ES"}

EnglishMonths ==
  << <<"J","a","n","u","a","r","y">>, <<"F","e","b","r","u","a","r","y">>,
     <<"M","a","r","c","h">>, <<"A","p","r","i","l">>, <<"M","a","y">>,
     <<"J","u","n","e">>, <<"J","u","l","y">>, <<"A","u","g","u","s","t">>,
     <<"S","e","p","t","e","m","b","e","r">>, <<"O","c","t","o","b","e","r">>,
     <<"N","o","v","e","m","b","e","r">>, <<"D","e","c","e","m","b","e","r">> >>

SpanishMonths ==
  << <<"e","n","e","r","o">>, <<"f","e","b","r","e","r","o">>,
     <<"m","a","r","z","o">>, <<"a","b","r","i","l">>, <<"m","a","y","o">>,
     <<"j","u","n","i","o">>, <<"j","u","l","i","o">>,
     <<"a","g","o","s","t","o">>,
     <<"s","e","p","t","i","e","m","b","r","e">>,
     <<"o","c","t","u","b","r","e">>,
     <<"n","o","v","i","e","m","b","r","e">>,
     <<"d","i","c","i","e","m","b","r","e">> >>

\* new Date(0, i).toLocaleString('default', { month: 'long' }): the long name
\* of month i (0..11) in the default locale of the runtime.
MonthLong(loc, i) ==
  IF loc = "en-US" THEN EnglishMonths[i + 1] ELSE SpanishMonths[i + 1]

\* The month words Date's text parser knows: three lower-case letters each.
MonthKeywords ==
  << <<"j","a","n">>, <<"f","e","b">>, <<"m","a","r">>, <<"a","p","r">>,
     <<"m","a","y">>, <<"j","u","n">>, <<"j","u","l">>, <<"a","u","g">>,
     <<"s","e","p">>, <<"o","c","t">>, <<"n","o","v">>, <<"d","e","c">> >>

ToLowerCase(c) ==
  CASE c = "J" -> "j" [] c = "F" -> "f" [] c = "M" -> "m" [] c = "A" -> "a"
    [] c = "S" -> "s" [] c = "O" -> "o" [] c = "N" -> "n" [] c = "D" -> "d"
    [] OTHER -> c

\* new Date(`${month} 1, 2020`).getMonth(): the text parser takes the word
\* for a month when its first three letters, case ignored, are a month
\* keyword; with any other word the text is no date and getMonth() is NaN.
MonthIndexOfName(name) ==
  IF Len(name) < 3 THEN NaN
  ELSE LET pre == [k \in 1..3 |-> ToLowerCase(name[k])]
       IN  IF \E i \in 1..MonthCount : MonthKeywords[i] = pre
           THEN (CHOOSE i \in 1..MonthCount : MonthKeywords[i] = pre) - 1
           ELSE NaN

\* ------------------------------------------------------------ environment

\* new Date(): the current date the runtime reports, as [year, month, date].
Todays ==
  { [year |-> 2024, month |-> 1, date |-> 10],
    [year |-> 2100, month |-> 2, date |-> 31] }

\* The values the store holds under "sell" keys (FirebaseSellData): the
\* fields the view computes on, the others are carried along untouched.
SampleValues ==
  << [name |-> "pen", price |-> 100, paymentMethod |-> "cash",
      soldAt |-> <<"2","0","2","4","-","0","1","-","0","5">>],
     [name |-> "ink", price |-> 50, paymentMethod |-> "online",
      soldAt |-> <<"2","0","2","4","-","0","2","-","1","0">>],
     [name |-> "pad", price |-> 30, paymentMethod |-> "cash",
      soldAt |-> <<"2","0","2","3","-","0","2","-","2","8">>],
     [name |-> "cap", price |-> 70, paymentMethod |-> "online",
      soldAt |-> <<"2","1","0","0","-","0","3","-","3","1">>] >>

Keys == 1..NumKeys

\* What snapshot.val() can be: null (exists = FALSE) or an object from keys
\* to sale values.
Snapshots ==
  { [exists |-> FALSE, val |-> <<>>] } \cup
  { [exists |-> TRUE,
     val |-> [k \in S |-> SampleValues[((k - 1) % Len(SampleValues)) + 1]]] :
       S \in {T \in SUBSET Keys : Cardinality(T) <= MaxSnapshot} }

\* ------------------------------------------------------------------ state

VARIABLES
  apps,            \* getApps(): the Firebase apps of the process
  app,             \* lib/firebase.ts `app`: index into apps, 0 before evaluation
  auth,            \* the app the exported auth handle is bound to (0: none)
  database,        \* the app the exported database handle is bound to (0: none)
  locale,          \* the default locale of the runtime
  today,           \* new Date()
  mounted,         \* DashboardContent is mounted
  listeners,       \* the paths of the active onValue subscriptions
  lastSnapshot,    \* the snapshot the callback last ran on (since the mount)
  sells,           \* useState<SellRecord[]>
  filteredMonth,   \* useState<string>
  filteredYear,
  filteredDay,
  route,           \* the route the router shows
  consoleErrors,   \* console.error('Error signing out:', ...) has run
  uncaught,        \* an exception has escaped a handler
  signedIn         \* the auth handle holds a signed-in user

vars ==
  << apps, app, auth, database, locale, today, mounted,
     listeners, lastSnapshot, sells, filteredMonth, filteredYear,
     filteredDay, route, consoleErrors, uncaught, signedIn >>

connectorVars == << apps, app, auth, database >>
envVars == << locale, today >>
filterVars == << filteredMonth, filteredYear, filteredDay >>

\* ref(database, 'sell')
SellPath == "sell"

\* No callback has run yet.
NoSnapshot == [delivered |-> FALSE, exists |-> FALSE, val |-> <<>>]

DashboardRoute == "/dashboard"
LoginRoute == "/login"

\* The '[DEFAULT]' app initializeApp(firebaseConfig) registers.
DefaultApp == [name |-> "[DEFAULT]", options |-> "firebaseConfig"]

\* ------------------------------------------------------- backend connector

\* A module that calls initializeApp without looking at getApps().
AppsAfterUncheckedInit(registry) == Append(registry, DefaultApp)

\* lib/firebase.ts, lines 19-23: the registry after the module has run.
AppsAfterEvaluation(registry) ==
  IF Len(registry) = 0 THEN Append(registry, DefaultApp) ELSE registry

\* lib/firebase.ts evaluated once more: `app` is the app just initialised, or
\* getApps()[0]; getAuth(app) and getDatabase(app) bind the handles to it.
EvaluateFirebaseModule ==
  /\ apps' = AppsAfterEvaluation(apps)
  /\ app' = IF Len(apps) = 0 THEN Len(apps') ELSE 1
  /\ auth' = app'
  /\ database' = app'
  /\ UNCHANGED << envVars, mounted, listeners, lastSnapshot, sells,
                  filterVars, route, consoleErrors, uncaught, signedIn >>

\* ------------------------------------------------------ live subscription

\* The keys of an object in ascending order.
RECURSIVE SortedKeys(_)
SortedKeys(S) ==
  IF S = {} THEN <<>>
  ELSE LET k == CHOOSE x \in S : \A y \in S : x <= y
       IN  <<k>> \o SortedKeys(S \ {k})

\* Object.entries(data).map(([key, value]) => ({ id: key, ...value }))
EntriesToSellList(data) ==
  LET keys == SortedKeys(DOMAIN data)
  IN  [i \in 1..Len(keys) |->
         [id |-> keys[i],
          name |-> data[keys[i]].name,
          price |-> data[keys[i]].price,
          soldAt |-> data[keys[i]].soldAt,
          paymentMethod |-> data[keys[i]].paymentMethod]]

\* A callback that merges into the list it has instead of replacing it.
SnapshotCallbackMerging(snapshot) ==
  IF snapshot.exists THEN sells \o EntriesToSellList(snapshot.val) ELSE sells

\* The onValue callback: the list setSells receives for a snapshot.
SnapshotCallback(snapshot) ==
  IF snapshot.exists THEN EntriesToSellList(snapshot.val) ELSE <<>>

\* An effect that returns no cleanup: the subscription stays.
UnsubscribeNothing(active) == active

\* return () => unsubscribe(): the active subscriptions after the cleanup
\* has cancelled the one its effect opened.
Unsubscribe(active) == SubSeq(active, 1, Len(active) - 1)

\* The component mounts: the four useState cells hold their initial values
\* (lines 91-94) and the effect opens the subscription on 'sell'.
Mount ==
  /\ ~mounted
  /\ app # 0
  /\ route = DashboardRoute
  /\ mounted' = TRUE
  /\ sells' = <<>>
  /\ filteredMonth' = All
  /\ filteredYear' = All
  /\ filteredDay' = All
  /\ listeners' = Append(listeners, SellPath)
  /\ lastSnapshot' = NoSnapshot
  /\ UNCHANGED << connectorVars, envVars, route, consoleErrors, uncaught,
                  signedIn >>

\* The component unmounts: the effect's cleanup runs. React drops the state
\* cells of an unmounted component; the variables then hold the initial
\* values the next mount starts from.
Unmount ==
  /\ mounted
  /\ mounted' = FALSE
  /\ listeners' = Unsubscribe(listeners)
  /\ sells' = <<>>
  /\ filteredMonth' = All
  /\ filteredYear' = All
  /\ filteredDay' = All
  /\ lastSnapshot' = NoSnapshot
  /\ UNCHANGED << connectorVars, envVars, route, consoleErrors, uncaught,
                  signedIn >>

\* The store emits a snapshot of 'sell': every active subscription's callback
\* runs; with none, nothing of the view changes.
Emit(snapshot) ==
  /\ sells' = IF listeners # <<>> THEN SnapshotCallback(snapshot) ELSE sells
  /\ lastSnapshot' =
       IF listeners # <<>>
       THEN [delivered |-> TRUE, exists |-> snapshot.exists,
             val |-> snapshot.val]
       ELSE lastSnapshot
  /\ UNCHANGED << connectorVars, envVars, mounted, listeners, filterVars,
                  route, consoleErrors, uncaught, signedIn >>

\* ----------------------------------------------------------------- logout

\* A handler without the try/catch: the rejection escapes it.
LogoutOutcomeUncaught(ok) ==
  IF ok
  THEN [signedIn |-> FALSE, route |-> LoginRoute,
        consoleErrors |-> consoleErrors, uncaught |-> uncaught]
  ELSE [signedIn |-> signedIn, route |-> route,
        consoleErrors |-> consoleErrors, uncaught |-> TRUE]

\* handleLogout with signOut(auth) resolving (ok: the user is signed out) or
\* rejecting: what the try/catch leaves of the session, the route, the
\* console and the uncaught-exception flag.
LogoutOutcome(ok) ==
  IF ok
  THEN [signedIn |-> FALSE, route |-> LoginRoute,
        consoleErrors |-> consoleErrors, uncaught |-> uncaught]
  ELSE [signedIn |-> signedIn, route |-> route,
        consoleErrors |-> TRUE, uncaught |-> uncaught]

\* The view is on screen: mounted and not navigated away from. After
\* router.push('/login') the page is on its way out and takes no more input;
\* until it unmounts it still receives the store's snapshots.
Displayed == mounted /\ route = DashboardRoute

\* The click on "Log out": the handler runs to its end in one step, the
\* awaited signOut(auth) resolving or rejecting.
HandleLogout(ok) ==
  /\ Displayed
  /\ auth # 0
  /\ signedIn' = LogoutOutcome(ok).signedIn
  /\ route' = LogoutOutcome(ok).route
  /\ consoleErrors' = LogoutOutcome(ok).consoleErrors
  /\ uncaught' = LogoutOutcome(ok).uncaught
  /\ UNCHANGED << connectorVars, envVars, mounted, listeners, lastSnapshot,
                  sells, filterVars >>

\* -------------------------------------------------------------- filtering

\* The predicate of filterSells for one sale.
SellMatches(sell, month, year, day) ==
  LET soldDate   == NewDate(sell.soldAt)
      monthMatch == \/ month = All
                    \/ StrictEq(soldDate.month, MonthIndexOfName(month))
      yearMatch  == year = All \/ StrictEq(soldDate.year, ParseInt(year))
      dayMatch   == day = All \/ StrictEq(soldDate.date, ParseInt(day))
  IN  monthMatch /\ yearMatch /\ dayMatch

filterSells(list, month, year, day) ==
  SelectSeq(list, LAMBDA sell : SellMatches(sell, month, year, day))

filteredSells == filterSells(sells, filteredMonth, filteredYear, filteredDay)

\* The predicate of the "today" filter for one sale.
SoldToday(sell) ==
  LET soldDate == NewDate(sell.soldAt)
  IN  /\ StrictEq(soldDate.date, today.date)
      /\ StrictEq(soldDate.month, today.month)
      /\ StrictEq(soldDate.year, today.year)

\* A today view that falls back to the filtered set only when all three
\* selectors are set.
todaySellsWhenAllSet ==
  IF filteredMonth # All /\ filteredYear # All /\ filteredDay # All
  THEN filteredSells
  ELSE SelectSeq(sells, SoldToday)

todaySells ==
  IF filteredMonth # All \/ filteredYear # All \/ filteredDay # All
  THEN filteredSells
  ELSE SelectSeq(sells, SoldToday)

\* ------------------------------------------------------------- aggregates

\* list.reduce((acc, sell) => acc + sell.price, 0)
RECURSIVE SumPrice(_)
SumPrice(list) ==
  IF list = <<>> THEN 0 ELSE Head(list).price + SumPrice(Tail(list))

\* A split that compares against the capitalised label the table shows.
PaidByLabel(list, method) ==
  SelectSeq(list, LAMBDA sell :
    sell.paymentMethod = (IF method = "cash" THEN "Cash" ELSE "Online"))

PaidBy(list, method) ==
  SelectSeq(list, LAMBDA sell : sell.paymentMethod = method)

totalProductsSold == Len(filteredSells)
totalMoneyCollected == SumPrice(filteredSells)
totalCashSales == SumPrice(PaidBy(filteredSells, "cash"))
totalOnlineSales == SumPrice(PaidBy(filteredSells, "online"))
todayCashSales == SumPrice(PaidBy(todaySells, "cash"))
todayOnlineSales == SumPrice(PaidBy(todaySells, "online"))

\* A chart that takes getMonth() to count from 1.
MonthlyTotalFromOne(list, method, index) ==
  SumPrice(SelectSeq(list, LAMBDA sell :
    /\ sell.paymentMethod = method
    /\ StrictEq(NewDate(sell.soldAt).month, index + 1)))

\* The total of one chart series for month `index`.
MonthlyTotal(list, method, index) ==
  SumPrice(SelectSeq(list, LAMBDA sell :
    sell.paymentMethod = method /\ StrictEq(NewDate(sell.soldAt).month, index)))

\* One entry per month index 0..11 (the short month label is display only).
ChartOf(list) ==
  [index \in 0..(MonthCount - 1) |->
     [Cash   |-> MonthlyTotal(list, "cash", index),
      Online |-> MonthlyTotal(list, "online", index)]]

lineChartData == ChartOf(filteredSells)

\* ------------------------------------------------------------ day options

\* new Date(year, monthIndex + 1, 0).getDate()
DaysInMonth(year, monthIndex) ==
  IF monthIndex = NaN THEN NaN ELSE DateOf(year, monthIndex + 1, 0).date

\* Array.from({ length: n }, (_, i) => i + 1); a NaN length is length 0.
getDayOptions ==
  IF filteredMonth = All \/ filteredYear = All THEN <<>>
  ELSE LET monthIndex  == MonthIndexOfName(filteredMonth)
           year        == ParseInt(filteredYear)
           daysInMonth == DaysInMonth(year, monthIndex)
       IN  [i \in 1..(IF daysInMonth = NaN THEN 0 ELSE daysInMonth) |-> i]

\* ---------------------------------------------------------- filter controls

\* The <option>s of the three selects.
MonthOptions == {All} \cup {MonthLong(locale, i) : i \in 0..(MonthCount - 1)}

YearOptions ==
  {All} \cup {NumberToString(today.year - i) : i \in 0..(YearOptionCount - 1)}

OptionTexts(days) == {NumberToString(days[i]) : i \in 1..Len(days)}

DayOptions == {All} \cup OptionTexts(getDayOptions)

\* disabled={filteredMonth === 'All' || filteredYear === 'All'}
DaySelectDisabled == filteredMonth = All \/ filteredYear = All

\* A month handler that forgets setFilteredDay('All').
ChangeMonthKeepingDay(value) ==
  /\ Displayed
  /\ filteredMonth' = value
  /\ UNCHANGED << connectorVars, envVars, mounted, listeners, lastSnapshot,
                  sells, filteredYear, filteredDay, route, consoleErrors,
                  uncaught, signedIn >>

ChangeMonth(value) ==
  /\ Displayed
  /\ filteredMonth' = value
  /\ filteredDay' = All
  /\ UNCHANGED << connectorVars, envVars, mounted, listeners, lastSnapshot,
                  sells,
                  filteredYear, route, consoleErrors, uncaught, signedIn >>

\* A year handler that forgets setFilteredDay('All').
ChangeYearKeepingDay(value) ==
  /\ Displayed
  /\ filteredYear' = value
  /\ UNCHANGED << connectorVars, envVars, mounted, listeners, lastSnapshot,
                  sells, filteredMonth, filteredDay, route, consoleErrors,
                  uncaught, signedIn >>

ChangeYear(value) ==
  /\ Displayed
  /\ filteredYear' = value
  /\ filteredDay' = All
  /\ UNCHANGED << connectorVars, envVars, mounted, listeners, lastSnapshot,
                  sells,
                  filteredMonth, route, consoleErrors, uncaught, signedIn >>

ChangeDay(value) ==
  /\ Displayed
  /\ ~DaySelectDisabled
  /\ filteredDay' = value
  /\ UNCHANGED << connectorVars, envVars, mounted, listeners, lastSnapshot,
                  sells,
                  filteredMonth, filteredYear, route, consoleErrors,
                  uncaught, signedIn >>

ResetFilters ==
  /\ Displayed
  /\ filteredMonth' = All
  /\ filteredYear' = All
  /\ filteredDay' = All
  /\ UNCHANGED << connectorVars, envVars, mounted, listeners, lastSnapshot, sells, route,
                  consoleErrors, uncaught, signedIn >>

\* ---------------------------------------------------------- specification

Init ==
  /\ apps = <<>>
  /\ app = 0
  /\ auth = 0
  /\ database = 0
  /\ locale \in Locales
  /\ today \in Todays
  /\ mounted = FALSE
  /\ listeners = <<>>
  /\ lastSnapshot = NoSnapshot
  /\ sells = <<>>
  /\ filteredMonth = All
  /\ filteredYear = All
  /\ filteredDay = All
  /\ route = DashboardRoute
  /\ consoleErrors = FALSE
  /\ uncaught = FALSE
  /\ signedIn = TRUE

Next ==
  \/ EvaluateFirebaseModule
  \/ Mount
  \/ Unmount
  \/ \E snapshot \in Snapshots : Emit(snapshot)
  \/ \E ok \in BOOLEAN : HandleLogout(ok)
  \/ \E value \in MonthOptions : ChangeMonth(value)
  \/ \E value \in YearOptions : ChangeYear(value)
  \/ \E value \in DayOptions : ChangeDay(value)
  \/ ResetFilters

Spec == Init /\ [][Next]_vars

\* ------------------------------------------------- vocabulary of the claims

\* n as two digits, the way an ISO date writes a month or a day.
Pad2(n) == IF n < 10 THEN <<"0">> \o NumberToString(n) ELSE NumberToString(n)

\* The calendar date [year, month, date] written as "YYYY-MM-DD".
IsoText(d) ==
  NumberToString(d.year) \o <<"-">> \o Pad2(d.month + 1) \o <<"-">> \o Pad2(d.date)

YearText(sell) == SubSeq(sell.soldAt, 1, 4)
MonthText(sell) == SubSeq(sell.soldAt, 6, 7)
DayText(sell) == SubSeq(sell.soldAt, 9, 10)

\* The index of the month option that is selected (the option list is built
\* from the indexes 0..11).
SelectedMonthIndex ==
  CHOOSE i \in 0..(MonthCount - 1) : MonthLong(locale, i) = filteredMonth

\* The year and the day whose option is selected.
SelectedYear ==
  CHOOSE y \in (today.year - YearOptionCount + 1)..today.year :
    NumberToString(y) = filteredYear

SelectedDay == CHOOSE d \in 1..31 : NumberToString(d) = filteredDay

MonthSelects(sell) ==
  filteredMonth = All \/ MonthText(sell) = Pad2(SelectedMonthIndex + 1)

YearSelects(sell) ==
  filteredYear = All \/ YearText(sell) = NumberToString(SelectedYear)

DaySelects(sell) ==
  filteredDay = All \/ DayText(sell) = Pad2(SelectedDay)

Range(list) == {list[i] : i \in 1..Len(list)}

\* The days of month index m (0..11) of year y under the Gregorian rule.
GregorianDays(m, y) ==
  IF m = 1
  THEN IF (y % 4 = 0 /\ y % 100 # 0) \/ y % 400 = 0 THEN 29 ELSE 28
  ELSE IF m \in {3, 5, 8, 10} THEN 30 ELSE 31

NoFilter == filteredMonth = All /\ filteredYear = All /\ filteredDay = All

\* --------------------------------------------------------------- claim C1

\* C1: filterSells returns a subset of the list, and a sale is in the result
\* exactly when the month selector is 'All' or the sale's month is the
\* selected month, the year selector is 'All' or the sale's year is the
\* selected year, and the day selector is 'All' or the sale's day of month
\* is the selected day.
C1_FilterIsExactConjunction ==
  /\ Range(filteredSells) \subseteq Range(sells)
  /\ \A sell \in Range(sells) :
       sell \in Range(filteredSells)
         <=> (MonthSelects(sell) /\ YearSelects(sell) /\ DaySelects(sell))

\* --------------------------------------------------------------- claim C2

\* Cash + Online over the entries 0..m of a chart.
RECURSIVE ChartSumUpTo(_, _)
ChartSumUpTo(chart, m) ==
  IF m < 0 THEN 0
  ELSE chart[m].Cash + chart[m].Online + ChartSumUpTo(chart, m - 1)

\* C2: in every reachable state the sum over the twelve monthly chart entries
\* of Cash + Online equals totalCashSales + totalOnlineSales of the filtered
\* set.
C2_ChartSumEqualsTotals ==
  ChartSumUpTo(lineChartData, MonthCount - 1)
    = totalCashSales + totalOnlineSales

\* A filtered view that holds both a cash and an online sale.
C2_Witness ==
  /\ mounted
  /\ filteredYear # All
  /\ totalCashSales > 0
  /\ totalOnlineSales > 0

\* --------------------------------------------------------------- claim C3

\* C3: after any sequence of snapshot events and filter changes the list is
\* the decoding of the last snapshot alone: one record per key of the
\* snapshot, with id = key and the key's value, nothing else; empty when the
\* snapshot was null or empty, and empty before the first snapshot.
C3_ListIsLastSnapshot ==
  IF lastSnapshot.delivered /\ lastSnapshot.exists
  THEN /\ Len(sells) = Cardinality(DOMAIN lastSnapshot.val)
       /\ {sells[i].id : i \in 1..Len(sells)} = DOMAIN lastSnapshot.val
       /\ \A i \in 1..Len(sells) :
            LET value == lastSnapshot.val[sells[i].id]
            IN  /\ sells[i].name = value.name
                /\ sells[i].price = value.price
                /\ sells[i].soldAt = value.soldAt
                /\ sells[i].paymentMethod = value.paymentMethod
  ELSE sells = <<>>

\* A null snapshot has emptied the list while a filter was selected.
C3_Witness ==
  /\ mounted
  /\ lastSnapshot.delivered
  /\ ~lastSnapshot.exists
  /\ sells = <<>>
  /\ filteredDay # All

\* --------------------------------------------------------------- claim C4

\* C4: the today view is the filtered set whenever a selector is not 'All';
\* with all three 'All' it is exactly the sales of the list dated the
\* current day, month and year.
C4_TodayView ==
  IF NoFilter
  THEN todaySells = SelectSeq(sells, LAMBDA sell : sell.soldAt = IsoText(today))
  ELSE todaySells = filteredSells

\* No filter, and today's sales are some but not all of the list.
C4_Witness ==
  /\ mounted
  /\ NoFilter
  /\ todaySells # <<>>
  /\ Len(todaySells) < Len(sells)

\* --------------------------------------------------------------- claim C5

DayNeedsMonthAndYear ==
  filteredDay # All => (filteredMonth # All /\ filteredYear # All)

\* C5: a step that changes the month selector or the year selector leaves the
\* day selector at 'All'; and in every state reachable through the UI a day
\* selector other than 'All' implies month and year other than 'All'.
C5_DayResetOnMonthOrYearChange ==
  /\ DayNeedsMonthAndYear
  /\ [][ /\ (filteredMonth' # filteredMonth \/ filteredYear' # filteredYear)
              => filteredDay' = All
         /\ DayNeedsMonthAndYear' ]_vars

\* A day is selected, under a month and a year.
C5_Witness ==
  /\ mounted
  /\ filteredDay # All
  /\ filteredMonth # All
  /\ filteredYear # All

\* --------------------------------------------------------------- claim C6

SessionMatchesRoute ==
  /\ ~uncaught
  /\ route = IF signedIn THEN DashboardRoute ELSE LoginRoute

\* C6: handleLogout navigates to '/login' when signOut succeeds and only
\* then; when signOut fails the error is logged, nothing escapes the
\* handler, the user stays signed in on the dashboard route, the view stays
\* mounted and its sale list and filters are unchanged.
C6_LogoutOutcomes ==
  /\ SessionMatchesRoute
  /\ [][ /\ SessionMatchesRoute'
         /\ signedIn' # signedIn => consoleErrors' = consoleErrors
         /\ consoleErrors' # consoleErrors =>
              /\ consoleErrors'
              /\ signedIn' = signedIn
              /\ mounted' = mounted
              /\ sells' = sells
              /\ filteredMonth' = filteredMonth
              /\ filteredYear' = filteredYear
              /\ filteredDay' = filteredDay ]_vars

\* A sign-out has failed on a view showing sales under a day filter.
C6_Witness ==
  /\ consoleErrors
  /\ signedIn
  /\ mounted
  /\ route = DashboardRoute
  /\ sells # <<>>
  /\ filteredDay # All

\* --------------------------------------------------------------- claim C7

\* C7: however often lib/firebase.ts is evaluated there is at most one app;
\* once evaluated there is exactly one, built from the fixed configuration,
\* and `app`, the auth handle and the database handle are all bound to it.
C7_SingleConnection ==
  /\ Len(apps) <= 1
  /\ IF app = 0
     THEN apps = <<>> /\ auth = 0 /\ database = 0
     ELSE /\ apps = <<DefaultApp>>
          /\ app = 1
          /\ auth = app
          /\ database = app

\* The connection exists and the view reads the store through it.
C7_Witness ==
  /\ Len(apps) = 1
  /\ database = 1
  /\ auth = 1
  /\ mounted
  /\ lastSnapshot.delivered

\* --------------------------------------------------------------- claim C8

SubscribedIffMounted ==
  listeners = IF mounted THEN <<SellPath>> ELSE <<>>

\* C8: a mounted component has exactly one active subscription, on 'sell';
\* an unmounted one has none, and while the component stays unmounted no
\* step (a store emission included) changes the sale list.
C8_SubscriptionLifecycle ==
  /\ SubscribedIffMounted
  /\ [][ /\ SubscribedIffMounted'
         /\ (~mounted /\ ~mounted') => sells' = sells ]_vars

\* The component has unmounted after the sign-out navigated away.
C8_Witness ==
  /\ ~mounted
  /\ listeners = <<>>
  /\ route = LoginRoute

\* --------------------------------------------------------------- claim C9

\* C9: getDayOptions is empty when month or year is 'All'; otherwise it is
\* the list 1..N in ascending order, N the number of days of the selected
\* month in the selected year under the Gregorian rule (29 for February of a
\* leap year, 28 for February otherwise, 31 for January).
C9_DayOptionsAreTheDaysOfTheMonth ==
  getDayOptions =
    IF filteredMonth = All \/ filteredYear = All THEN <<>>
    ELSE [i \in 1..GregorianDays(SelectedMonthIndex, SelectedYear) |-> i]

\* -------------------------------------------------------------- claim C10

\* The sale of the list stored under key id.
SellOf(id) == sells[CHOOSE i \in 1..Len(sells) : sells[i].id = id]

\* The prices of the sales with the given ids, added up.
RECURSIVE PriceOfIds(_)
PriceOfIds(ids) ==
  IF ids = {} THEN 0
  ELSE LET id == CHOOSE x \in ids : TRUE
       IN  SellOf(id).price + PriceOfIds(ids \ {id})

IdsOf(list) == {list[i].id : i \in 1..Len(list)}

IdsPaidBy(ids, method) == {id \in ids : SellOf(id).paymentMethod = method}

IdsOfMonth(ids, m) == {id \in ids : MonthText(SellOf(id)) = Pad2(m + 1)}

\* The two sales of the worked example, in that order.
ExampleSells ==
  /\ Len(sells) = 2
  /\ sells[1].price = 100
  /\ sells[1].paymentMethod = "cash"
  /\ sells[1].soldAt = <<"2","0","2","4","-","0","1","-","0","5">>
  /\ sells[2].price = 50
  /\ sells[2].paymentMethod = "online"
  /\ sells[2].soldAt = <<"2","0","2","4","-","0","2","-","1","0">>

\* The displayed aggregates and the chart are those of the sales `ids`.
AggregatesOf(ids, chart) ==
  /\ totalProductsSold = Cardinality(ids)
  /\ totalMoneyCollected = PriceOfIds(ids)
  /\ totalCashSales = PriceOfIds(IdsPaidBy(ids, "cash"))
  /\ totalOnlineSales = PriceOfIds(IdsPaidBy(ids, "online"))
  /\ \A m \in 0..(MonthCount - 1) :
       /\ chart[m].Cash = PriceOfIds(IdsOfMonth(IdsPaidBy(ids, "cash"), m))
       /\ chart[m].Online = PriceOfIds(IdsOfMonth(IdsPaidBy(ids, "online"), m))

\* The figures of the worked example.
ExampleAggregates(chart) ==
  /\ totalMoneyCollected = 150
  /\ totalCashSales = 100
  /\ totalOnlineSales = 50
  /\ chart[0] = [Cash |-> 100, Online |-> 0]
  /\ chart[1] = [Cash |-> 0, Online |-> 50]

\* C10: in every state (so after every snapshot and every filter change) the
\* aggregates are those of the current filtered set: its size, the sum of
\* its prices, the sums of its cash and of its online prices, and per month
\* the cash and online sums of its sales of that month; for the two example
\* sales and no filter: 150, 100, 50, January 100/0, February 0/50.
C10_AggregatesOfFilteredSet ==
  /\ AggregatesOf(IdsOf(filteredSells), lineChartData)
  /\ (ExampleSells /\ NoFilter) => ExampleAggregates(lineChartData)

\* The worked example on screen.
C10_Witness == mounted /\ ExampleSells /\ NoFilter

\* -------------------------------------------------------------- claim C11

====
